---- MODULE Spec2Model ----
(***************************************************************************)
(* Model of VisualUpdate::process (src/src/visual_update.rs): the track    *)
(* aligner, the pose-trail query, the triangulation gate and the           *)
(* measurement linearizer, with the scratch buffers of Tmp that are reused *)
(* from track to track and from call to call.                              *)
(*                                                                         *)
(* Floating-point matrices are abstracted to provenance: every entry of    *)
(* y, z and H is either Zero (never written since it was allocated with    *)
(* the fill value 0.) or a tag naming the track, the filter-state slot of  *)
(* the pose, the stereo camera and the row component it was computed from. *)
(* The projected point ac and the projection Jacobian d_normalized_ac keep *)
(* their numbers, as integers and exact fractions.  A Rust panic (an index *)
(* out of bounds, a failed assert!) ends the process: pc = "panicked".     *)
(***************************************************************************)
EXTENDS Integers, Sequences, FiniteSets, TLC

\* Frame numbers are 0..MaxFrame.
MaxFrame == 2
\* Longest pose-trail window.
MaxWindow == 2
\* Tracks processed over the whole run (all calls together).
MaxTracks == 2
\* Largest depth ac[2] of a projected point (ac[0], ac[1] are in 0..1).
MaxDepth == 2

VARIABLES
  pc,                       \* position inside process, "idle" outside it
  panic,                    \* the expression that panicked, "none" otherwise
  tno,                      \* serial number of the current track, 0 before any
  tracks_left,              \* tracks of this call not yet started
  pose_trail_frame_numbers, \* the window argument of the call
  trail_len,                \* poses the filter retains (filter state)
  track,                    \* the current track: its points (<<>> outside the loop body)
  k,                        \* position of the point loop in track (1-based)
  i,                        \* window pointer of the alignment loop
  indices,                  \* tmp.indices
  normalized_coordinates,   \* tmp.normalized_coordinates
  kalman_filter_poses,      \* tmp.kalman_filter_poses: the slot each pose is of
  triangulate_output,       \* tmp.triangulate_output
  H, y, z,                  \* tmp.H, tmp.y, tmp.z
  oi, oj,                   \* loop indices i, j of the linearizer
  ac,                       \* the last projected point
  d_normalized_ac,          \* the last projection Jacobian
  success,                  \* last result of get_camera_pose_trail
  outcome                   \* how the last finished track ended

vars == <<pc, panic, tno, tracks_left, pose_trail_frame_numbers,
          trail_len, track, k, i, indices, normalized_coordinates,
          kalman_filter_poses, triangulate_output, H, y, z, oi, oj, ac,
          d_normalized_ac, success, outcome>>

----------------------------------------------------------------------------
\* Values and containers

Zero == [track |-> 0, slot |-> 0, cam |-> 0, comp |-> 0]

Tag(t, s, c, m) == [track |-> t, slot |-> s, cam |-> c, comp |-> m]

\* A vector is a function on 0..len-1.
VLen(v) == Cardinality(DOMAIN v)

zeros(n) == [r \in 0..(n - 1) |-> Zero]

\* nalgebra resize_vertically_mut(n, val): the common prefix is kept.
resize_vertically_mut(v, n, val) ==
  [r \in 0..(n - 1) |-> IF r \in DOMAIN v THEN v[r] ELSE val]

\* A matrix is [nrows, ncols, e], e a function on the index pairs.
Matrix_zeros(r, c) ==
  [nrows |-> r, ncols |-> c,
   e |-> [p \in (0..(r - 1)) \X (0..(c - 1)) |-> Zero]]

\* nalgebra resize_mut(r, c, val): the common top-left block is kept.
resize_mut(M, r, c, val) ==
  [nrows |-> r, ncols |-> c,
   e |-> [p \in (0..(r - 1)) \X (0..(c - 1)) |->
            IF p[1] < M.nrows /\ p[2] < M.ncols THEN M.e[p] ELSE val]]

\* fixed_slice_mut::<2, w>(row, col) is inside the matrix.
SliceInBounds(M, row, col, w) == row + 2 <= M.nrows /\ col + w <= M.ncols

\* fixed_slice_mut::<2, w>(row, col).copy_from(..) of values of one observation.
CopyIntoSlice(M, row, col, w, t, s, c) ==
  [M EXCEPT !.e = [p \in DOMAIN M.e |->
     IF p[1] \in row..(row + 1) /\ p[2] \in col..(col + w - 1)
     THEN Tag(t, s, c, p[1] - row) ELSE M.e[p]]]

----------------------------------------------------------------------------
\* Inputs

Frames == 0..MaxFrame

RECURSIVE Ascending(_)
\* The strictly ascending sequence of the elements of a set of numbers.
Ascending(S) ==
  IF S = {} THEN <<>>
  ELSE LET m == CHOOSE x \in S : \A x2 \in S : x <= x2
       IN <<m>> \o Ascending(S \ {m})

Windows == {Ascending(S) : S \in {T \in SUBSET Frames : Cardinality(T) <= MaxWindow}}

\* A track's points, sorted by frame_number; the coordinates of a point are
\* named by the track and the frame they were observed in.
TrackOf(t, S) ==
  LET fs == Ascending(S)
  IN [n \in 1..Len(fs) |->
        [frame_number |-> fs[n], normalized_coordinates |-> <<t, fs[n]>>]]

AcVals == (0..1) \X (0..1) \X (-1..MaxDepth)

----------------------------------------------------------------------------
Init ==
  /\ pc = "idle"
  /\ panic = "none"
  /\ tno = 0
  /\ tracks_left = 0
  /\ pose_trail_frame_numbers = <<>>
  /\ trail_len = 0
  /\ track = <<>>
  /\ k = 1
  /\ i = 0
  /\ indices = <<>>
  /\ normalized_coordinates = <<>>
  /\ kalman_filter_poses = <<>>
  /\ triangulate_output = [a |-> 0, n_da |-> 0]
  /\ H = Matrix_zeros(0, 0)
  /\ y = zeros(0)
  /\ z = zeros(0)
  /\ oi = 0
  /\ oj = 0
  /\ ac = <<0, 0, 0>>
  /\ d_normalized_ac = <<>>
  /\ success = TRUE
  /\ outcome = "none"

----------------------------------------------------------------------------
\* The filter's query interface (KalmanFilter is not part of the sources).

\* get_camera_pose_trail: false when an index is outside the retained poses.
get_camera_pose_trail_success(ind, retained) ==
  \A n \in 1..Len(ind) : ind[n] < retained

\* The poses it returns, one stereo pair per index: each named by its slot.
get_camera_pose_trail_poses(ind, retained) ==
  IF get_camera_pose_trail_success(ind, retained) THEN ind ELSE <<>>

\* State-vector layout: slot s owns 3 position and 4 orientation columns.
get_camera_pos_ind(s) == 7 * s

get_camera_ori_ind(s) == 7 * s + 3

get_camera_state_len(retained) == 7 * retained

----------------------------------------------------------------------------
\* process: the 'track loop

\* `continue 'track`, or the end of the loop body: the next track, or return.
NextTrackPc == IF tracks_left > 0 THEN "track" ELSE "idle"

\* The loop body is left: its locals are gone, and with the last track the
\* window argument of the call too.
LeaveTrack ==
  /\ pc' = NextTrackPc
  /\ track' = <<>>
  /\ k' = 1
  /\ i' = 0
  /\ oi' = 0
  /\ oj' = 0
  /\ ac' = <<0, 0, 0>>
  /\ d_normalized_ac' = <<>>
  /\ pose_trail_frame_numbers' =
       IF tracks_left > 0 THEN pose_trail_frame_numbers ELSE <<>>

\* A call of process with its arguments: a window, a filter that retains no
\* more poses than the window has entries, and nt tracks (a call with no track
\* returns at once and changes nothing).
Call ==
  /\ pc = "idle"
  /\ \E w \in Windows, retained \in 0..MaxWindow, nt \in 1..(MaxTracks - tno) :
       /\ retained <= Len(w)
       /\ pose_trail_frame_numbers' = w
       /\ trail_len' = retained
       /\ tracks_left' = nt
       /\ pc' = "track"
  /\ UNCHANGED <<panic, tno, track, k, i, indices, normalized_coordinates,
                 kalman_filter_poses, triangulate_output, H, y, z, oi, oj, ac,
                 d_normalized_ac, success, outcome>>

\* tmp.indices.clear()
ClearIndices(ind) == <<>>

\* tmp.normalized_coordinates.clear()
ClearCoordinates(nc) == <<>>

\* Lines 47-50: the next track is taken, the alignment buffers are cleared.
StartTrack ==
  /\ pc = "track"
  /\ tracks_left > 0
  /\ \E S \in SUBSET Frames :
       /\ track' = TrackOf(tno + 1, S)
       /\ pc' = IF S = {} THEN "fetch" ELSE "align"
  /\ tno' = tno + 1
  /\ tracks_left' = tracks_left - 1
  /\ indices' = ClearIndices(indices)
  /\ normalized_coordinates' = ClearCoordinates(normalized_coordinates)
  /\ i' = 0
  /\ k' = 1
  /\ UNCHANGED <<panic, pose_trail_frame_numbers, trail_len,
                 kalman_filter_poses, triangulate_output, H, y, z, oi, oj, ac,
                 d_normalized_ac, success, outcome>>

RECURSIVE AdvanceWindow(_, _, _)
\* Line 53: while i < len && window[i] < frame { i += 1 }
AdvanceWindow(w, i0, f) ==
  IF i0 < Len(w) /\ w[i0 + 1] < f THEN AdvanceWindow(w, i0 + 1, f) ELSE i0

\* The reversal without the - 1.
FilterStateIndex_off_by_one(N, i0) == N - i0

\* Line 58: in the filter state the newest pose is first.
FilterStateIndex(N, i0) == N - i0 - 1

\* Lines 51-62: one iteration of the point loop.  window[i] is read at line 52
\* and at line 56 without a check of i against the length.
AlignPoint ==
  /\ pc = "align"
  /\ LET point == track[k]
         w == pose_trail_frame_numbers
         N == Len(w)
         f == point.frame_number
         more == k < Len(track)
         i2 == AdvanceWindow(w, i, f)
     IN IF i >= N
        THEN /\ pc' = "panicked"
             /\ panic' = "pose_trail_frame_numbers[i]"
             /\ UNCHANGED <<k, i, indices, normalized_coordinates>>
        ELSE IF f < w[i + 1]
        THEN /\ pc' = IF more THEN "align" ELSE "fetch"
             /\ k' = IF more THEN k + 1 ELSE 1
             /\ i' = IF more THEN i ELSE 0
             /\ UNCHANGED <<panic, indices, normalized_coordinates>>
        ELSE IF i2 >= N
        THEN /\ pc' = "panicked"
             /\ panic' = "pose_trail_frame_numbers[i]"
             /\ i' = i2
             /\ UNCHANGED <<k, indices, normalized_coordinates>>
        ELSE /\ IF w[i2 + 1] = f
                THEN /\ indices' = Append(indices, FilterStateIndex(N, i2))
                     /\ normalized_coordinates' =
                          Append(normalized_coordinates, point.normalized_coordinates)
                ELSE UNCHANGED <<indices, normalized_coordinates>>
             /\ pc' = IF i2 < N /\ more THEN "align" ELSE "fetch"
             /\ k' = IF i2 < N /\ more THEN k + 1 ELSE 1
             /\ i' = IF i2 < N /\ more THEN i2 ELSE 0
             /\ UNCHANGED panic
  /\ UNCHANGED <<tno, tracks_left, pose_trail_frame_numbers, trail_len,
                 track, kalman_filter_poses, triangulate_output, H, y, z, oi,
                 oj, ac, d_normalized_ac, success, outcome>>

\* Lines 64-69: the poses of the aligned indices; assert!(success).
GetCameraPoseTrail ==
  /\ pc = "fetch"
  /\ success' = get_camera_pose_trail_success(indices, trail_len)
  /\ kalman_filter_poses' = get_camera_pose_trail_poses(indices, trail_len)
  /\ IF success'
     THEN pc' = "triangulate" /\ UNCHANGED panic
     ELSE pc' = "panicked" /\ panic' = "assert!(success)"
  /\ UNCHANGED <<tno, tracks_left, pose_trail_frame_numbers, trail_len,
                 track, k, i, indices, normalized_coordinates,
                 triangulate_output, H, y, z, oi, oj, ac, d_normalized_ac,
                 outcome>>

\* triangulate, lines 178-198: with no observation S stays the zero matrix and
\* try_inverse fails; otherwise S is invertible or not with the geometry.
TriangulateIsSome(n, invertible) == n > 0 /\ invertible

\* The resize hoisted above the triangulation gate.
ResizeMeasurement_before_gate(v, n, some) ==
  resize_vertically_mut(v, 2 * n, Zero)

\* Lines 71-77 and 96-98: y and z are resized for n poses only once triangulate
\* has returned a point; the entries of the old length are kept.
ResizeMeasurement(v, n, some) ==
  IF some THEN resize_vertically_mut(v, 2 * n, Zero) ELSE v

\* Lines 71-77 and 99: likewise H, the entries inside the old shape being kept.
ResizeJacobian(M, n, cols, some) ==
  IF some THEN resize_mut(M, 2 * n, cols, Zero) ELSE M

\* Lines 71-77 with triangulate, and on success lines 96-99.
Triangulate ==
  /\ pc = "triangulate"
  /\ \E invertible \in BOOLEAN :
       LET n == Len(kalman_filter_poses)
       IN IF Len(normalized_coordinates) # n
          THEN /\ pc' = "panicked"
               /\ panic' = "assert_eq!(len, len)"
               /\ triangulate_output' = [a |-> 0, n_da |-> 0]
               /\ UNCHANGED <<H, y, z, outcome, track, k, i, oi, oj, ac,
                              d_normalized_ac, pose_trail_frame_numbers>>
          ELSE IF ~TriangulateIsSome(n, invertible)
          THEN /\ LeaveTrack
               /\ outcome' = "no_triangulation"
               /\ triangulate_output' = [a |-> 0, n_da |-> 0]
               /\ y' = ResizeMeasurement(y, n, FALSE)
               /\ z' = ResizeMeasurement(z, n, FALSE)
               /\ H' = ResizeJacobian(H, n, get_camera_state_len(trail_len), FALSE)
               /\ UNCHANGED panic
          ELSE /\ pc' = "observe"
               /\ triangulate_output' = [a |-> tno, n_da |-> 2 * n]
               /\ y' = ResizeMeasurement(y, n, TRUE)
               /\ z' = ResizeMeasurement(z, n, TRUE)
               /\ H' = ResizeJacobian(H, n, get_camera_state_len(trail_len), TRUE)
               /\ UNCHANGED <<panic, outcome, track, k, i, oi, oj, ac,
                              d_normalized_ac, pose_trail_frame_numbers>>
  /\ UNCHANGED <<tno, tracks_left, trail_len, indices, normalized_coordinates,
                 kalman_filter_poses, success>>

\* Line 102: the first row of observation (i, j).
Row(i0, j0) == 2 * i0 + j0

\* Lines 115-119: the projection Jacobian, entries as fractions <<num, den>>.
d_normalized(a) ==
  << << <<1, a[3]>>, <<0, 1>>, <<-a[1], a[3]>> >>,
     << <<0, 1>>, <<1, a[3]>>, <<-a[2], a[3]>> >> >>

\* Lines 128-129: the slot whose columns observation i0 is written to.
ColumnSlot(i0, ind) == i0

\* Lines 101-139: one iteration of the loops over poses and cameras.  After the
\* last one the loop body ends (z, the outlier check and the update are TODOs).
Observe ==
  /\ pc = "observe"
  /\ \E a \in AcVals :
       LET n == Len(kalman_filter_poses)
           row == Row(oi, oj)
           slot == kalman_filter_poses[oi + 1]
           col_pos == get_camera_pos_ind(ColumnSlot(oi, indices))
           col_ori == get_camera_ori_ind(ColumnSlot(oi, indices))
           y1 == [y EXCEPT ![row + 0] = Tag(tno, slot, oj, 0)]
           y2 == [y1 EXCEPT ![row + 1] = Tag(tno, slot, oj, 1)]
           H1 == CopyIntoSlice(H, row, col_pos, 3, tno, slot, oj)
           H2 == CopyIntoSlice(H1, row, col_ori, 4, tno, slot, oj)
           last == oi = n - 1 /\ oj = 1
           stay == UNCHANGED <<track, k, i, oi, oj, outcome,
                               pose_trail_frame_numbers>>
       IN IF a[3] <= 0
          THEN /\ LeaveTrack
               /\ outcome' = "behind_camera"
               /\ UNCHANGED <<panic, H, y>>
          ELSE IF (row + 0) \notin DOMAIN y
          THEN /\ pc' = "panicked"
               /\ panic' = "y[row + 0]"
               /\ ac' = a
               /\ d_normalized_ac' = d_normalized(a)
               /\ stay
               /\ UNCHANGED <<H, y>>
          ELSE IF (row + 1) \notin DOMAIN y
          THEN /\ pc' = "panicked"
               /\ panic' = "y[row + 1]"
               /\ ac' = a
               /\ d_normalized_ac' = d_normalized(a)
               /\ y' = y1
               /\ stay
               /\ UNCHANGED H
          ELSE IF ~SliceInBounds(H, row, col_pos, 3)
          THEN /\ pc' = "panicked"
               /\ panic' = "H.fixed_slice_mut(row, col_pos)"
               /\ ac' = a
               /\ d_normalized_ac' = d_normalized(a)
               /\ y' = y2
               /\ stay
               /\ UNCHANGED H
          ELSE IF ~SliceInBounds(H, row, col_ori, 4)
          THEN /\ pc' = "panicked"
               /\ panic' = "H.fixed_slice_mut(row, col_ori + m)"
               /\ ac' = a
               /\ d_normalized_ac' = d_normalized(a)
               /\ y' = y2
               /\ H' = H1
               /\ stay
          ELSE IF last
          THEN /\ LeaveTrack
               /\ outcome' = "linearized"
               /\ y' = y2
               /\ H' = H2
               /\ UNCHANGED panic
          ELSE /\ pc' = "observe"
               /\ ac' = a
               /\ d_normalized_ac' = d_normalized(a)
               /\ y' = y2
               /\ H' = H2
               /\ oi' = IF oj = 1 THEN oi + 1 ELSE oi
               /\ oj' = 1 - oj
               /\ UNCHANGED <<panic, track, k, i, outcome,
                              pose_trail_frame_numbers>>
  /\ UNCHANGED <<tno, tracks_left, trail_len, indices, normalized_coordinates,
                 kalman_filter_poses, triangulate_output, z, success>>

Next ==
  \/ Call
  \/ StartTrack
  \/ AlignPoint
  \/ GetCameraPoseTrail
  \/ Triangulate
  \/ Observe

Spec == Init /\ [][Next]_vars

----------------------------------------------------------------------------
\* Properties

\* The window holds frame f.
InWindow(w, f) == \E n \in 1..Len(w) : w[n] = f

\* The (0-based) window index of frame f.
WindowIndex(w, f) == (CHOOSE n \in 1..Len(w) : w[n] = f) - 1

\* The points of the current track whose frame the window retains, in track order.
MatchedPoints ==
  SelectSeq(track, LAMBDA p : InWindow(pose_trail_frame_numbers, p.frame_number))

ExpectedIndices ==
  [m \in 1..Len(MatchedPoints) |->
     Len(pose_trail_frame_numbers) - 1
       - WindowIndex(pose_trail_frame_numbers, MatchedPoints[m].frame_number)]

ExpectedCoordinates ==
  [m \in 1..Len(MatchedPoints) |-> MatchedPoints[m].normalized_coordinates]

\* The point loop of the current track is over, normally or by a panic.
AlignmentOver == pc \in {"fetch", "triangulate", "observe", "panicked"}

\* C1: once the alignment of a (sorted) track against a (sorted) window is over,
\* tmp.indices and tmp.normalized_coordinates hold exactly one pair per track
\* point whose frame the window holds at some index i, in track order, the pair
\* being (N - 1 - i, the point's coordinates), and nothing of an earlier track.
C1_AlignmentResult ==
  AlignmentOver =>
    /\ indices = ExpectedIndices
    /\ normalized_coordinates = ExpectedCoordinates

\* A second track of three points of which the window retains the last two.
C1_Witness ==
  /\ pc = "fetch"
  /\ tno = 2
  /\ Len(track) = 3
  /\ pose_trail_frame_numbers = <<1, 2>>
  /\ indices = <<1, 0>>
  /\ normalized_coordinates = << <<2, 1>>, <<2, 2>> >>

\* C2: the alignment loop never reads pose_trail_frame_numbers[i] with i at or
\* past the window length: it ends without a panic.
C2_AlignmentNeverOutOfBounds == panic # "pose_trail_frame_numbers[i]"

\* C3: a failure reported by get_camera_pose_trail does not abort the process.
C3_LookupFailureIsRecoverable == ~success => pc # "panicked"

\* No entry of y or H was computed from track t.
NothingOfTrack(t) ==
  /\ \A r \in DOMAIN y : y[r].track # t
  /\ \A p \in DOMAIN H.e : H.e[p].track # t

\* C4: once process has moved on from a track rejected for a point behind a
\* camera, no entry of y or H holds a value computed from that track.
C4_RejectedTrackLeavesNothing ==
  (outcome = "behind_camera" /\ pc \in {"track", "idle"}) => NothingOfTrack(tno)

\* C5: the steps of a track up to and including a triangulation without result
\* leave H, y, z and the filter's state as they were, the process does not
\* panic on that step, and if the call has more tracks the next one is taken.
C5_NoTriangulationSkipsTrack ==
  [][/\ pc \in {"track", "align", "fetch"} =>
          H' = H /\ y' = y /\ z' = z /\ trail_len' = trail_len
     /\ (pc = "triangulate" /\ outcome' = "no_triangulation" /\ pc' # "observe") =>
          /\ H' = H /\ y' = y /\ z' = z /\ trail_len' = trail_len
          /\ panic' = "none"
          /\ pc' = IF tracks_left > 0 THEN "track" ELSE "idle"]_vars

\* A track with an observation in the window failed to triangulate while the
\* buffers held the rows of an earlier track.
C5_Witness ==
  /\ outcome = "no_triangulation"
  /\ tno = 2
  /\ pc = "idle"
  /\ Len(indices) > 0
  /\ VLen(y) > 0
  /\ \E p \in DOMAIN H.e : H.e[p].track = 1

\* The linearizer is at work on the current track, or panicked in it.
Linearizing ==
  \/ pc = "observe"
  \/ pc = "panicked" /\ panic \in {"y[row + 0]", "y[row + 1]",
                                   "H.fixed_slice_mut(row, col_pos)",
                                   "H.fixed_slice_mut(row, col_ori + m)"}

\* Observation (i0, j0) of the current track has been written.
Written(i0, j0) == Row(i0, j0) < Row(oi, oj)

Observations == (0..(Len(kalman_filter_poses) - 1)) \X (0..1)

\* C6: with n camera observations (two per aligned pose) y has 2n entries and H
\* 2n rows, no write of the linearizer is out of bounds, and the two rows of a
\* written observation still hold that observation's values.
C6_RowsInBoundsAndDisjoint ==
  Linearizing =>
    /\ VLen(y) = 2 * (2 * Len(kalman_filter_poses))
    /\ H.nrows = 2 * (2 * Len(kalman_filter_poses))
    /\ pc # "panicked"
    /\ \A o \in Observations : Written(o[1], o[2]) =>
         \A m \in 0..1 :
           y[Row(o[1], o[2]) + m] = Tag(tno, kalman_filter_poses[o[1] + 1], o[2], m)

\* The columns observation i0 writes: 3 position and 4 orientation columns.
OwnColumns(i0) ==
  (get_camera_pos_ind(ColumnSlot(i0, indices))..(get_camera_pos_ind(ColumnSlot(i0, indices)) + 2))
    \cup (get_camera_ori_ind(ColumnSlot(i0, indices))..(get_camera_ori_ind(ColumnSlot(i0, indices)) + 3))

\* C7: in the two rows of H of a written observation every entry outside the
\* observation's own 7 columns is zero.
C7_OtherColumnsZero ==
  Linearizing =>
    \A o \in Observations : Written(o[1], o[2]) =>
      \A m \in 0..1, c \in 0..(H.ncols - 1) :
        (Row(o[1], o[2]) + m < H.nrows /\ H.e[<<Row(o[1], o[2]) + m, c>>] # Zero)
          => c \in OwnColumns(o[1])

\* Fractions <<num, den>> of equal value.
FracEq(p, q) == p[1] * q[2] = q[1] * p[2]

\* C8: for ac.z > 0 the projection Jacobian is
\* [[1/z, 0, -x/z^2], [0, 1/z, -y/z^2]].
C8_ProjectionJacobian ==
  (d_normalized_ac # <<>> /\ ac[3] > 0) =>
    /\ FracEq(d_normalized_ac[1][1], <<1, ac[3]>>)
    /\ FracEq(d_normalized_ac[1][2], <<0, 1>>)
    /\ FracEq(d_normalized_ac[1][3], <<-ac[1], ac[3] * ac[3]>>)
    /\ FracEq(d_normalized_ac[2][1], <<0, 1>>)
    /\ FracEq(d_normalized_ac[2][2], <<1, ac[3]>>)
    /\ FracEq(d_normalized_ac[2][3], <<-ac[2], ac[3] * ac[3]>>)

\* The current track triangulated and every one of its observations passed the
\* in-front-of-camera check: process is through with it.
PassedAllChecks ==
  \/ outcome = "linearized" /\ pc \in {"track", "idle"}
  \/ pc = "panicked" /\ panic = "y[row + 1]"
       /\ oi = Len(kalman_filter_poses) - 1 /\ oj = 1

\* The observed coordinate (component m, camera j0) of the i0-th matched point.
Observed(i0, j0, m) ==
  [point |-> normalized_coordinates[i0 + 1], cam |-> j0, comp |-> m]

\* C9: for a track that triangulated and passed the in-front check, z has a
\* row for every row of y and the rows of observation (i, j) hold the observed
\* normalized_coordinates[i][j].
C9_ObservedCoordinatesInZ ==
  PassedAllChecks =>
    /\ VLen(z) = VLen(y)
    /\ \A o \in Observations, m \in 0..1 :
         Row(o[1], o[2]) + m \in DOMAIN z
           /\ z[Row(o[1], o[2]) + m] = Observed(o[1], o[2], m)

\* C10: a value the current track computed from the pose of filter-state slot
\* s is in the 3 position or the 4 orientation columns of slot s.
C10_DerivativeInColumnsOfItsPose ==
  Linearizing =>
    \A p \in DOMAIN H.e :
      H.e[p].track = tno =>
        p[2] \in (get_camera_pos_ind(H.e[p].slot)..(get_camera_pos_ind(H.e[p].slot) + 2))
                   \cup (get_camera_ori_ind(H.e[p].slot)..(get_camera_ori_ind(H.e[p].slot) + 3))

====
